---- MODULE Spec2Model ----
(***************************************************************************)
(* Model of the wayfinder swap engine (src/src/engine.rs): the World       *)
(* ledger, the Pool capability, Engine::apply_swap and                     *)
(* Engine::execute_path, and simulateChained as spec.md section 4.3        *)
(* describes it (src/ holds no code for it), and of the connectivity graph  *)
(* AMMGraph (src/src/graph.rs).                                            *)
(*                                                                         *)
(* A behaviour is one call of an entry point on a World the caller built:  *)
(* the engine keeps no state between calls and World's fields are public,  *)
(* so every World is a possible argument.  U256 amounts are modelled by    *)
(* naturals far below 2^256 (no arithmetic in the model overflows).        *)
(***************************************************************************)
EXTENDS Integers, Sequences, FiniteSets, TLC

\* ------------------------------------------------------------------ bounds
MaxBal == 2
MaxHops == 2
MaxOps == 3

\* ------------------------------------------------------ identifiers (ids.rs)
TokenId == {1, 2, 3}
PoolId == {10, 11}

\* Balances a World is constructed with, and amounts a caller requests.
Balances == 0..MaxBal
Amounts == 0..MaxBal

\* ------------------------------------------------------- panic messages
NoPanic == "none"
MissingPoolImpl == "missing pool impl"
UnsupportedDirection == "unsupported direction"
MissingPoolState == "missing pool state"
EmptyRoute == "path must have at least one hop"
PathDiscontinuity == "path discontinuity"
UnwrapNone == "called Option::unwrap() on a None value"
NoEntryFound == "no entry found for key"

VARIABLES
    pools,             \* Engine.pools: PoolId -> pool implementation (partial)
    debug_assertions,  \* whether the build compiles debug_assert! in
    world,             \* World: [holdings, pool_states], both partial maps
    pc,                \* "idle" | "loop" | "returned" | "panicked"
    op,                \* the entry point called: "none" | "apply_swap" | "execute_path"
    swap_args,         \* apply_swap's (pid, from, to, amt_in)
    path_spec,         \* execute_path's path_spec
    pre,               \* the World as it was when the call was made
    i,                 \* execute_path: 1-based position of the for loop
    steps,             \* execute_path: the steps vector
    last_token,        \* execute_path: last_token
    ret_out,           \* apply_swap's return value
    ret_path,          \* execute_path's return value (Path.steps)
    panic,             \* the panic message of an aborted call, or NoPanic
    swaps,             \* log of the Pool::swap invocations made by the call
    sim_args,          \* simulateChained's (hops, firstInputAmount, capFirstHop)
    scratch,           \* simulateChained: the per-call scratch copies of pool state
    flow,              \* simulateChained: the amount flowing into the next hop
    graph,             \* AMMGraph: [nodes, edges, token_idx, pool_idx]
    g_op,              \* the graph operation called last, or "none"
    g_args,            \* its arguments
    g_ret,             \* the node handles it returns: one, none (unit), or a query's
    g_panic,           \* its panic message, or NoPanic
    g_prev,            \* the graph as it was when that call was made
    n_ops,             \* number of inserting calls made so far
    raw_links,         \* number of connect_token_to_pool / connect_pool_to_token calls so far
    inserted,          \* the directed links the calls so far asked for
    inserted_ids       \* the identifiers the calls so far named in an insertion

simVars == <<sim_args, scratch, flow>>

graphVars == <<graph, g_op, g_args, g_ret, g_panic, g_prev, n_ops, raw_links,
               inserted, inserted_ids>>

engineVars == <<pools, debug_assertions, world, pc, op, swap_args, path_spec, pre, i,
                steps, last_token, ret_out, ret_path, panic, swaps, sim_args, scratch, flow>>

vars == <<pools, debug_assertions, world, pc, op, swap_args, path_spec, pre, i,
          steps, last_token, ret_out, ret_path, panic, swaps, sim_args, scratch, flow,
          graph, g_op, g_args, g_ret, g_panic, g_prev, n_ops, raw_links,
          inserted, inserted_ids>>

\* --------------------------------------------------------------- helpers
Min(a, b) == IF a <= b THEN a ELSE b

\* HashMap::entry(k).or_default(): the map with k present (zero if it was absent).
\* Mutant of OrDefault: every asset is given an entry.
OrDefaultAll(h, k) == h @@ [t \in TokenId |-> 0]

OrDefault(h, k) == IF k \in DOMAIN h THEN h ELSE h @@ (k :> 0)

\* Reading a balance, an absent asset as zero.
Bal(w, t) == IF t \in DOMAIN w.holdings THEN w.holdings[t] ELSE 0

\* ------------------------------------------------- Pool capability (pool.rs)
\* tests::FeePool, the implementation the repository drives the engine with.
FeePool(a, b, fee_bps) == [a |-> a, b |-> b, fee_bps |-> fee_bps]

Supports(pool, f, t) ==
    \/ (f = pool.a /\ t = pool.b)
    \/ (f = pool.b /\ t = pool.a)

\* Mutant of Swap: the fee is taken as a flat amount, not pro rata.
SwapFlatFee(pool, st, f, t, amt_in) ==
    [out |-> IF amt_in > pool.fee_bps THEN amt_in - pool.fee_bps ELSE 0,
     st  |-> st + 1]

\* Pool::swap(&self, st: &mut State, from, to, amt_in) -> U256.  The output is
\* FeePool's; the state is the value the implementation may update in place,
\* modelled as the number of swaps priced against it.
\* (amt_in * num) / 10000 is computed from the quotient and the remainder of
\* amt_in by 10000, which gives the same value and keeps every intermediate
\* product within the model checker's integers.
Swap(pool, st, f, t, amt_in) ==
    LET num == 10000 - pool.fee_bps
    IN  [out |-> (amt_in \div 10000) * num + ((amt_in % 10000) * num) \div 10000,
         st  |-> st + 1]

\* ----------------------------------------------------- Engine::apply_swap
\* Mutant of UseIn: the request is not capped at the balance.
UseInUncapped(from_bal, amt_in) == amt_in

\* min(*from_bal, amt_in)
UseIn(from_bal, amt_in) == Min(from_bal, amt_in)

\* Mutant of ShortCircuit: no early return.
ShortCircuitNever(from_bal) == FALSE

\* Mutant of ShortCircuit: the early return also taken on a balance of one.
ShortCircuitOffByOne(from_bal) == from_bal <= 1

\* from_bal.is_zero()
ShortCircuit(from_bal) == from_bal = 0

\* Mutant of GetState: an absent pool state is defaulted instead of reported.
GetStateOrDefault(w, pid) ==
    IF pid \in DOMAIN w.pool_states
    THEN [some |-> TRUE, st |-> w.pool_states[pid]]
    ELSE [some |-> TRUE, st |-> 0]

\* world.pool_states.get_mut(&pid): the entry, if there is one.
GetState(w, pid) ==
    IF pid \in DOMAIN w.pool_states
    THEN [some |-> TRUE, st |-> w.pool_states[pid]]
    ELSE [some |-> FALSE, st |-> 0]

Outcome(p, o, w, s) == [panic |-> p, out |-> o, world |-> w, swaps |-> s]

\* The whole of apply_swap on World w: the panic (if any), the value returned,
\* the World left behind and the Pool::swap invocations made.
ApplySwap(w, pid, from, to, amt_in) ==
    IF pid \notin DOMAIN pools
    THEN Outcome(MissingPoolImpl, 0, w, <<>>)
    ELSE IF debug_assertions /\ ~Supports(pools[pid], from, to)
    THEN Outcome(UnsupportedDirection, 0, w, <<>>)
    ELSE
      LET h1 == OrDefault(w.holdings, from)
          from_bal == h1[from]
          w1 == [w EXCEPT !.holdings = h1]
      IN  IF ShortCircuit(from_bal)
          THEN Outcome(NoPanic, 0, w1, <<>>)
          ELSE
            LET use_in == UseIn(from_bal, amt_in)
                h2 == [h1 EXCEPT ![from] = from_bal - use_in]
                w2 == [w EXCEPT !.holdings = h2]
                st == GetState(w, pid)
            IN  IF ~st.some
                THEN Outcome(MissingPoolState, 0, w2, <<>>)
                ELSE
                  LET r  == Swap(pools[pid], st.st, from, to, use_in)
                      h3 == OrDefault(h2, to)
                      h4 == [h3 EXCEPT ![to] = h3[to] + r.out]
                  IN  Outcome(NoPanic, r.out,
                              [holdings |-> h4,
                               pool_states |-> (pid :> r.st) @@ w.pool_states],
                              <<<<pid, from, to, use_in>>>>)

\* ---------------------------------------------------- Engine::execute_path
\* Mutant of Step: the output amount is recorded as the input amount too.
StepInFromOut(pid, from, to, amt_in, amt_out) ==
    [pool |-> pid, from |-> from, to |-> to, amt_in |-> amt_out, amt_out |-> amt_out]

Step(pid, from, to, amt_in, amt_out) ==
    [pool |-> pid, from |-> from, to |-> to, amt_in |-> amt_in, amt_out |-> amt_out]

\* Mutant of HopOutcome: the continuity assertion comes after apply_swap.
HopOutcomeLate(w, hop, last) ==
    LET r == ApplySwap(w, hop[1], hop[2], hop[3], hop[4])
    IN  IF r.panic = NoPanic /\ hop[2] # last
        THEN Outcome(PathDiscontinuity, 0, r.world, r.swaps)
        ELSE r

\* Mutant of HopOutcome: no continuity assertion.
HopOutcomeUnchecked(w, hop, last) == ApplySwap(w, hop[1], hop[2], hop[3], hop[4])

\* One iteration of the for loop on hop: the continuity assertion, then apply_swap.
HopOutcome(w, hop, last) ==
    IF hop[2] # last
    THEN Outcome(PathDiscontinuity, 0, w, <<>>)
    ELSE ApplySwap(w, hop[1], hop[2], hop[3], hop[4])

\* Mutant of NonEmpty: the emptiness assertion is missing.
NonEmptyUnchecked(ps) == TRUE

\* !path_spec.is_empty()
NonEmpty(ps) == Len(ps) > 0

\* ------------------------------------------ simulateChained (spec.md 4.3)
SimOutcome(p, o, w, sc, s) ==
    [panic |-> p, out |-> o, world |-> w, scratch |-> sc, swaps |-> s]

\* Mutant of SimHopOutcome: the pricing function is run on the live pool-state
\* entry of the World instead of the scratch copy.
SimHopOutcomeLive(w, sc, hop, last, amt_in) ==
    IF hop[2] # last
    THEN SimOutcome(PathDiscontinuity, 0, w, sc, <<>>)
    ELSE IF hop[1] \notin DOMAIN pools
    THEN SimOutcome(MissingPoolImpl, 0, w, sc, <<>>)
    ELSE IF debug_assertions /\ ~Supports(pools[hop[1]], hop[2], hop[3])
    THEN SimOutcome(UnsupportedDirection, 0, w, sc, <<>>)
    ELSE IF amt_in = 0
    THEN SimOutcome(NoPanic, 0, w, sc, <<>>)
    ELSE IF hop[1] \notin DOMAIN w.pool_states
    THEN SimOutcome(MissingPoolState, 0, w, sc, <<>>)
    ELSE LET r == Swap(pools[hop[1]], w.pool_states[hop[1]], hop[2], hop[3], amt_in)
         IN  SimOutcome(NoPanic, r.out,
                        [w EXCEPT !.pool_states = (hop[1] :> r.st) @@ w.pool_states],
                        sc, <<<<hop[1], hop[2], hop[3], amt_in>>>>)

\* One hop of simulateChained: the continuity check, the implementation
\* lookup, the zero-flow short-circuit, then the pricing function on the
\* scratch copy of the pool's state, cloned from World w on first reference.
SimHopOutcome(w, sc, hop, last, amt_in) ==
    IF hop[2] # last
    THEN SimOutcome(PathDiscontinuity, 0, w, sc, <<>>)
    ELSE IF hop[1] \notin DOMAIN pools
    THEN SimOutcome(MissingPoolImpl, 0, w, sc, <<>>)
    ELSE IF debug_assertions /\ ~Supports(pools[hop[1]], hop[2], hop[3])
    THEN SimOutcome(UnsupportedDirection, 0, w, sc, <<>>)
    ELSE IF amt_in = 0
    THEN SimOutcome(NoPanic, 0, w, sc, <<>>)
    ELSE IF hop[1] \notin DOMAIN sc /\ hop[1] \notin DOMAIN w.pool_states
    THEN SimOutcome(MissingPoolState, 0, w, sc, <<>>)
    ELSE LET sc1 == IF hop[1] \in DOMAIN sc THEN sc
                    ELSE (hop[1] :> w.pool_states[hop[1]]) @@ sc
             r == Swap(pools[hop[1]], sc1[hop[1]], hop[2], hop[3], amt_in)
         IN  SimOutcome(NoPanic, r.out, w, (hop[1] :> r.st) @@ sc1,
                        <<<<hop[1], hop[2], hop[3], amt_in>>>>)

\* The first hop's input: firstInputAmount, capped at the holding of the
\* route's starting asset when capFirstHop is set.
FirstInput(w, start, first_in, cap_first) ==
    IF cap_first THEN Min(first_in, Bal(w, start)) ELSE first_in

\* ------------------------------------------------------------ input sets
\* The hops of a path_spec: any pool, any two assets, the largest request (so
\* that a hop is capped whenever less than MaxBal is held).
Hops == PoolId \X TokenId \X TokenId \X {MaxBal}

Routes == UNION {[1..n -> Hops] : n \in 0..MaxHops}

PartialMaps(K, V) == UNION {[S -> V] : S \in SUBSET K}

\* The pool implementations an Engine is constructed over: both pools, or
\* pool 10 alone (pool 11 is then an unknown implementation).
PoolCollections ==
    {(10 :> FeePool(1, 2, 100)) @@ (11 :> FeePool(2, 3, 0)),
     (10 :> FeePool(1, 2, 100))}

Worlds == [holdings : PartialMaps(TokenId, Balances),
           pool_states : PartialMaps(PoolId, {0})]

\* The Worlds execute_path is called on: at most one asset has an entry (as in
\* the tests, which fund the route's first asset only).
PathWorlds == [holdings : {<<>>} \cup {t :> b : t \in TokenId, b \in Balances},
               pool_states : PartialMaps(PoolId, {0})]

\* simulateChained's hops carry no amount; the first input is the largest.
SimRoutes == UNION {[1..n -> PoolId \X TokenId \X TokenId] : n \in 0..MaxHops}

\* The Worlds simulateChained is called on: as PathWorlds, pool 10 seeded.
SimWorlds == [holdings : {<<>>} \cup {t :> b : t \in TokenId, b \in Balances},
              pool_states : {(10 :> 0), (10 :> 0) @@ (11 :> 0)}]

\* ------------------------------------------------ AMMGraph (graph.rs)
\* The identifiers the graph is built over.
GraphTokens == {1, 2}
GraphPools == {10, 11}

\* enum NodeKind { Token(TokenId), Pool(PoolId) }
TokenNode(id) == [kind |-> "Token", id |-> id]
PoolNode(id) == [kind |-> "Pool", id |-> id]
NodeKind == {TokenNode(id) : id \in TokenId} \cup {PoolNode(id) : id \in PoolId}

EmptyMap == [k \in {} |-> 0]

\* AMMGraph::new().  g is kept as the sequence of node weights and the
\* sequence of edges in insertion order; nothing is ever removed, so the
\* NodeIndex of a node is its position in nodes (counted from 1 here).
AMMGraphNew ==
    [nodes |-> <<>>, edges |-> <<>>, token_idx |-> EmptyMap, pool_idx |-> EmptyMap]

\* StableDiGraph::add_edge: always a new edge, parallel edges allowed.
AddEdge(gr, from, to) == [gr EXCEPT !.edges = Append(@, <<from, to>>)]

\* StableDiGraph::find_edge(from, to).is_some()
FindEdge(gr, from, to) == \E k \in 1..Len(gr.edges) : gr.edges[k] = <<from, to>>

\* Mutant of AddToken: a node is added on every call.
AddTokenAlways(gr, id) ==
    LET ix == Len(gr.nodes) + 1
    IN  [graph |-> [gr EXCEPT !.nodes = Append(@, TokenNode(id)),
                              !.token_idx = (id :> ix) @@ @],
         ix |-> ix]

\* add_token: token_idx.entry(id).or_insert_with(|| g.add_node(Token(id)))
AddToken(gr, id) ==
    IF id \in DOMAIN gr.token_idx
    THEN [graph |-> gr, ix |-> gr.token_idx[id]]
    ELSE LET ix == Len(gr.nodes) + 1
         IN  [graph |-> [gr EXCEPT !.nodes = Append(@, TokenNode(id)),
                                   !.token_idx = (id :> ix) @@ @],
              ix |-> ix]

\* Mutant of AddPool: a node is added on every call.
AddPoolAlways(gr, id) ==
    LET ix == Len(gr.nodes) + 1
    IN  [graph |-> [gr EXCEPT !.nodes = Append(@, PoolNode(id)),
                              !.pool_idx = (id :> ix) @@ @],
         ix |-> ix]

\* add_pool: pool_idx.entry(id).or_insert_with(|| g.add_node(Pool(id)))
AddPool(gr, id) ==
    IF id \in DOMAIN gr.pool_idx
    THEN [graph |-> gr, ix |-> gr.pool_idx[id]]
    ELSE LET ix == Len(gr.nodes) + 1
         IN  [graph |-> [gr EXCEPT !.nodes = Append(@, PoolNode(id)),
                                   !.pool_idx = (id :> ix) @@ @],
              ix |-> ix]

ConnectTokenToPool(gr, t, p) ==
    LET tix == AddToken(gr, t)
        pix == AddPool(tix.graph, p)
    IN  AddEdge(pix.graph, tix.ix, pix.ix)

ConnectPoolToToken(gr, p, t) ==
    LET pix == AddPool(gr, p)
        tix == AddToken(pix.graph, t)
    IN  AddEdge(tix.graph, pix.ix, tix.ix)

\* Mutant of AddEdgeUnique: the edge is added without looking for it.
AddEdgeUniqueUnchecked(gr, from, to) == AddEdge(gr, from, to)

\* Mutant of AddEdgeUnique: the lookup is made for the opposite edge.
AddEdgeUniqueReversed(gr, from, to) ==
    IF ~FindEdge(gr, to, from) THEN AddEdge(gr, from, to) ELSE gr

AddEdgeUnique(gr, from, to) ==
    IF ~FindEdge(gr, from, to) THEN AddEdge(gr, from, to) ELSE gr

ConnectBidirectionalPair(gr, p, a, b) ==
    LET aix == AddToken(gr, a)
        bix == AddToken(aix.graph, b)
        pix == AddPool(bix.graph, p)
        g1 == AddEdgeUnique(pix.graph, aix.ix, pix.ix)
        g2 == AddEdgeUnique(g1, pix.ix, bix.ix)
        g3 == AddEdgeUnique(g2, bix.ix, pix.ix)
    IN  AddEdgeUnique(g3, pix.ix, aix.ix)

\* g.neighbors_directed(ix, dir): the other end of every edge of ix in that
\* direction, one item per edge, the edge added last first.
NeighborsDirected(gr, ix, dir) ==
    LET near == IF dir = "Outgoing" THEN 1 ELSE 2
        es == SelectSeq(gr.edges, LAMBDA e : e[near] = ix)
    IN  [k \in 1..Len(es) |-> es[Len(es) + 1 - k][3 - near]]

QueryOutcome(pn, ret) == [panic |-> pn, ret |-> ret]

\* Mutant of PoolsAccepting: the neighbours are taken against the edges.
PoolsAcceptingIncoming(gr, t) ==
    IF t \notin DOMAIN gr.token_idx
    THEN QueryOutcome(NoEntryFound, <<>>)
    ELSE QueryOutcome(NoPanic,
                      SelectSeq(NeighborsDirected(gr, gr.token_idx[t], "Incoming"),
                                LAMBDA n : gr.nodes[n].kind = "Pool"))

\* Mutant of PoolsAccepting: an unknown token yields nothing.
PoolsAcceptingLenient(gr, t) ==
    IF t \notin DOMAIN gr.token_idx
    THEN QueryOutcome(NoPanic, <<>>)
    ELSE QueryOutcome(NoPanic,
                      SelectSeq(NeighborsDirected(gr, gr.token_idx[t], "Outgoing"),
                                LAMBDA n : gr.nodes[n].kind = "Pool"))

\* pools_accepting, its iterator collected.  token_idx[&t] panics on a key the
\* map does not hold, before any iterator is built.
PoolsAccepting(gr, t) ==
    IF t \notin DOMAIN gr.token_idx
    THEN QueryOutcome(NoEntryFound, <<>>)
    ELSE QueryOutcome(NoPanic,
                      SelectSeq(NeighborsDirected(gr, gr.token_idx[t], "Outgoing"),
                                LAMBDA n : gr.nodes[n].kind = "Pool"))

TokensEmittedBy(gr, p) ==
    IF p \notin DOMAIN gr.pool_idx
    THEN QueryOutcome(NoEntryFound, <<>>)
    ELSE QueryOutcome(NoPanic,
                      SelectSeq(NeighborsDirected(gr, gr.pool_idx[p], "Outgoing"),
                                LAMBDA n : gr.nodes[n].kind = "Token"))

\* The directed links a call asks for: a token feeding a pool, a pool
\* emitting a token.
Feeds(t, p) == <<TokenNode(t), PoolNode(p)>>
Emits(p, t) == <<PoolNode(p), TokenNode(t)>>

\* ---------------------------------- the two-hop scenario of the engine tests
StartX == 1000000
HopOneIn == 250000
HopTwoIn == 200000
FeeOneBps == 100
FeeTwoBps == 200
HopOneOut == 247500
HopTwoOut == 196000
FinalX == 750000
FinalY == 47500
FinalZ == 196000

\* tests::two_hop_trace_and_balances: p_xy = PoolId(10) over X = TokenId(1) and
\* Y = TokenId(2), p_yz = PoolId(11) over Y and Z = TokenId(3).
ScenarioPools ==
    (10 :> FeePool(1, 2, FeeOneBps)) @@ (11 :> FeePool(2, 3, FeeTwoBps))

ScenarioWorld ==
    [holdings |-> (1 :> StartX), pool_states |-> (10 :> 0) @@ (11 :> 0)]

ScenarioPlan == <<<<10, 1, 2, HopOneIn>>, <<11, 2, 3, HopTwoIn>>>>

\* The plan of the test and its neighbours: the same two hops, each asked for
\* nothing, for the scenario's amounts or for everything.
ScenarioAmounts == {0, HopTwoIn, HopOneOut, HopOneIn, StartX}

ScenarioRoutes ==
    {<<<<10, 1, 2, a1>>, <<11, 2, 3, a2>>>> : a1 \in ScenarioAmounts, a2 \in ScenarioAmounts}

\* ------------------------------------------------------------------ Init
NoGraphCall ==
    /\ graph = AMMGraphNew
    /\ g_op = "none"
    /\ g_args = <<>>
    /\ g_ret = <<>>
    /\ g_panic = NoPanic
    /\ g_prev = AMMGraphNew
    /\ n_ops = 0
    /\ raw_links = 0
    /\ inserted = {}
    /\ inserted_ids = {}

NoCall ==
    /\ pc = "idle"
    /\ op = "none"
    /\ swap_args = <<>>
    /\ path_spec = <<>>
    /\ pre = world
    /\ i = 0
    /\ steps = <<>>
    /\ last_token = 0
    /\ ret_out = 0
    /\ ret_path = <<>>
    /\ panic = NoPanic
    /\ swaps = <<>>
    /\ sim_args = <<>>
    /\ scratch = <<>>
    /\ flow = 0
    /\ NoGraphCall

Idle ==
    /\ pools \in PoolCollections
    /\ debug_assertions \in BOOLEAN
    /\ NoCall

Init == world \in Worlds /\ Idle

InitPath == world \in PathWorlds /\ Idle

InitSim == world \in SimWorlds /\ Idle

InitScenario ==
    /\ pools = ScenarioPools
    /\ debug_assertions \in BOOLEAN
    /\ world = ScenarioWorld
    /\ NoCall

\* A graph of its own: no engine call is made on it.
InitGraph ==
    /\ pools = ScenarioPools
    /\ debug_assertions = TRUE
    /\ world = ScenarioWorld
    /\ NoCall

\* --------------------------------------------------------------- actions
\* A call of Engine::apply_swap, start to end.
CallApplySwap(pid, from, to, amt_in) ==
    /\ pc = "idle"
    /\ LET r == ApplySwap(world, pid, from, to, amt_in)
       IN  /\ world' = r.world
           /\ panic' = r.panic
           /\ ret_out' = r.out
           /\ swaps' = r.swaps
           /\ pc' = IF r.panic = NoPanic THEN "returned" ELSE "panicked"
    /\ op' = "apply_swap"
    /\ swap_args' = <<pid, from, to, amt_in>>
    /\ pre' = world
    /\ UNCHANGED <<graphVars, pools, debug_assertions, path_spec, i, steps, last_token, ret_path,
                   simVars>>

\* execute_path up to the for loop: the emptiness assertion, steps, last_token.
ExecutePathEnter(ps) ==
    /\ pc = "idle"
    /\ op' = "execute_path"
    /\ path_spec' = ps
    /\ pre' = world
    /\ IF ~NonEmpty(ps)
       THEN /\ pc' = "panicked"
            /\ panic' = EmptyRoute
            /\ UNCHANGED <<i, last_token>>
       ELSE IF Len(ps) = 0
       THEN \* path_spec.first().unwrap() on an empty slice
            /\ pc' = "panicked"
            /\ panic' = UnwrapNone
            /\ UNCHANGED <<i, last_token>>
       ELSE /\ pc' = "loop"
            /\ i' = 1
            /\ last_token' = ps[1][2]
            /\ UNCHANGED panic
    /\ UNCHANGED <<graphVars, pools, debug_assertions, world, swap_args, steps, ret_out,
                   ret_path, swaps, simVars>>

\* One iteration of the for loop.
ExecutePathHop ==
    /\ pc = "loop"
    /\ i <= Len(path_spec)
    /\ LET hop == path_spec[i]
           r == HopOutcome(world, hop, last_token)
       IN  /\ world' = r.world
           /\ swaps' = swaps \o r.swaps
           /\ IF r.panic = NoPanic
              THEN /\ steps' = Append(steps, Step(hop[1], hop[2], hop[3], hop[4], r.out))
                   /\ last_token' = hop[3]
                   /\ i' = i + 1
                   /\ UNCHANGED <<pc, panic>>
              ELSE /\ pc' = "panicked"
                   /\ panic' = r.panic
                   /\ UNCHANGED <<steps, last_token, i>>
    /\ UNCHANGED <<graphVars, pools, debug_assertions, op, swap_args, path_spec, pre, ret_out,
                   ret_path, simVars>>

\* The loop is exhausted: Path { steps } is returned.
ExecutePathReturn ==
    /\ pc = "loop"
    /\ i > Len(path_spec)
    /\ pc' = "returned"
    /\ ret_path' = steps
    /\ UNCHANGED <<graphVars, pools, debug_assertions, world, op, swap_args, path_spec, pre, i,
                   steps, last_token, ret_out, panic, swaps, simVars>>

\* simulateChained up to its loop: the emptiness check, the scratch mapping,
\* the first input.
SimulateChainedEnter(hops, first_in, cap_first) ==
    /\ pc = "idle"
    /\ op' = "simulate_chained"
    /\ sim_args' = <<hops, first_in, cap_first>>
    /\ pre' = world
    /\ IF Len(hops) = 0
       THEN /\ pc' = "panicked"
            /\ panic' = EmptyRoute
            /\ UNCHANGED <<i, last_token, scratch, flow>>
       ELSE /\ pc' = "sim_loop"
            /\ i' = 1
            /\ last_token' = hops[1][2]
            /\ scratch' = <<>>
            /\ flow' = FirstInput(world, hops[1][2], first_in, cap_first)
            /\ UNCHANGED panic
    /\ UNCHANGED <<graphVars, pools, debug_assertions, world, swap_args, path_spec, steps,
                   ret_out, ret_path, swaps>>

\* One hop of simulateChained; the next hop's input is this hop's output.
SimulateChainedHop ==
    /\ pc = "sim_loop"
    /\ i <= Len(sim_args[1])
    /\ LET hop == sim_args[1][i]
           r == SimHopOutcome(world, scratch, hop, last_token, flow)
       IN  /\ world' = r.world
           /\ scratch' = r.scratch
           /\ swaps' = swaps \o r.swaps
           /\ IF r.panic = NoPanic
              THEN /\ steps' = Append(steps, Step(hop[1], hop[2], hop[3], flow, r.out))
                   /\ last_token' = hop[3]
                   /\ flow' = r.out
                   /\ i' = i + 1
                   /\ UNCHANGED <<pc, panic>>
              ELSE /\ pc' = "panicked"
                   /\ panic' = r.panic
                   /\ UNCHANGED <<steps, last_token, flow, i>>
    /\ UNCHANGED <<graphVars, pools, debug_assertions, op, swap_args, path_spec, pre, ret_out,
                   ret_path, sim_args>>

\* The hops are exhausted: the Path is returned and the scratch discarded.
SimulateChainedReturn ==
    /\ pc = "sim_loop"
    /\ i > Len(sim_args[1])
    /\ pc' = "returned"
    /\ ret_path' = steps
    /\ UNCHANGED <<graphVars, pools, debug_assertions, world, op, swap_args, path_spec, pre, i,
                   steps, last_token, ret_out, panic, swaps, simVars>>

\* ------------------------------------------------------ graph actions
\* An inserting call, start to end: gr is the graph it leaves, ret what it
\* returns, links and ids what it was asked to insert.
Inserting(name, args, gr, ret, raw, links, ids) ==
    /\ n_ops < MaxOps
    /\ graph' = gr
    /\ g_op' = name
    /\ g_args' = args
    /\ g_ret' = ret
    /\ g_panic' = NoPanic
    /\ g_prev' = graph
    /\ n_ops' = n_ops + 1
    /\ raw_links' = raw_links + raw
    /\ inserted' = inserted \cup links
    /\ inserted_ids' = inserted_ids \cup ids
    /\ UNCHANGED engineVars

CallAddToken(id) ==
    LET r == AddToken(graph, id)
    IN  Inserting("add_token", <<id>>, r.graph, <<r.ix>>, 0, {}, {TokenNode(id)})

CallAddPool(id) ==
    LET r == AddPool(graph, id)
    IN  Inserting("add_pool", <<id>>, r.graph, <<r.ix>>, 0, {}, {PoolNode(id)})

CallConnectTokenToPool(t, p) ==
    LET gr == ConnectTokenToPool(graph, t, p)
    IN  Inserting("connect_token_to_pool", <<t, p>>, gr, <<>>,
                  1, {Feeds(t, p)}, {TokenNode(t), PoolNode(p)})

CallConnectPoolToToken(p, t) ==
    LET gr == ConnectPoolToToken(graph, p, t)
    IN  Inserting("connect_pool_to_token", <<p, t>>, gr, <<>>,
                  1, {Emits(p, t)}, {TokenNode(t), PoolNode(p)})

CallConnectBidirectionalPair(p, a, b) ==
    LET gr == ConnectBidirectionalPair(graph, p, a, b)
    IN  Inserting("connect_bidirectional_pair", <<p, a, b>>, gr, <<>>, 0,
                  {Feeds(a, p), Emits(p, b), Feeds(b, p), Emits(p, a)},
                  {TokenNode(a), TokenNode(b), PoolNode(p)})

\* A query, start to end; it takes &self.
Querying(name, args, r) ==
    /\ g_op' = name
    /\ g_args' = args
    /\ g_ret' = r.ret
    /\ g_panic' = r.panic
    /\ g_prev' = graph
    /\ UNCHANGED <<graph, n_ops, raw_links, inserted, inserted_ids>>
    /\ UNCHANGED engineVars

CallPoolsAccepting(t) ==
    LET r == PoolsAccepting(graph, t)
    IN  Querying("pools_accepting", <<t>>, r)

CallTokensEmittedBy(p) ==
    LET r == TokensEmittedBy(graph, p)
    IN  Querying("tokens_emitted_by", <<p>>, r)

\* ------------------------------------------------------- specifications
NextApply == pc = "idle" /\ \E pid \in PoolId, from \in TokenId, to \in TokenId, amt_in \in Amounts :
                 CallApplySwap(pid, from, to, amt_in)

SpecApply == Init /\ [][NextApply]_vars

\* Either entry point, called on a World of PathWorlds.
Next ==
    \/ NextApply
    \/ pc = "idle" /\ \E ps \in Routes : ExecutePathEnter(ps)
    \/ ExecutePathHop
    \/ ExecutePathReturn

Spec == InitPath /\ [][Next]_vars

NextSim ==
    \/ pc = "idle" /\ \E hops \in SimRoutes, cap_first \in BOOLEAN :
                         SimulateChainedEnter(hops, MaxBal, cap_first)
    \/ SimulateChainedHop
    \/ SimulateChainedReturn

SpecSim == InitSim /\ [][NextSim]_vars

NextScenario ==
    \/ pc = "idle" /\ \E ps \in ScenarioRoutes : ExecutePathEnter(ps)
    \/ ExecutePathHop
    \/ ExecutePathReturn

SpecScenario == InitScenario /\ [][NextScenario]_vars

NextGraph ==
    \/ \E id \in GraphTokens : CallAddToken(id)
    \/ \E id \in GraphPools : CallAddPool(id)
    \/ \E t \in GraphTokens, p \in GraphPools : CallConnectTokenToPool(t, p)
    \/ \E p \in GraphPools, t \in GraphTokens : CallConnectPoolToToken(p, t)
    \/ \E p \in GraphPools, a \in GraphTokens, b \in GraphTokens :
           CallConnectBidirectionalPair(p, a, b)
    \/ \E t \in GraphTokens : CallPoolsAccepting(t)
    \/ \E p \in GraphPools : CallTokensEmittedBy(p)

SpecGraph == InitGraph /\ [][NextGraph]_vars


\* ------------------------------------------------------ claim vocabulary
ApplyCalled == op = "apply_swap"
ApplyReturned == op = "apply_swap" /\ pc = "returned"
ApplyPanicked == op = "apply_swap" /\ pc = "panicked"
PathCalled == op = "execute_path"
PathReturned == op = "execute_path" /\ pc = "returned"
PathPanicked == op = "execute_path" /\ pc = "panicked"

\* Balances equal asset by asset, an absent asset reading as zero.
SameBalances(w1, w2) == \A t \in TokenId : Bal(w1, t) = Bal(w2, t)

\* The call got past the implementation lookup and the direction assertion.
Admitted(pid, from, to) ==
    /\ pid \in DOMAIN pools
    /\ debug_assertions => Supports(pools[pid], from, to)

\* The pool has an implementation and it supports the direction asked for.
Supported(pid, from, to) ==
    /\ pid \in DOMAIN pools
    /\ Supports(pools[pid], from, to)

\* The outcome of applying the first n hops of ps to w with apply_swap, in
\* order, stopping at the first that panics.
RECURSIVE RunHops(_, _, _)
RunHops(w, ps, n) ==
    IF n = 0
    THEN Outcome(NoPanic, 0, w, <<>>)
    ELSE LET before == RunHops(w, ps, n - 1)
         IN  IF before.panic # NoPanic
             THEN before
             ELSE LET r == ApplySwap(before.world, ps[n][1], ps[n][2], ps[n][3], ps[n][4])
                  IN  [r EXCEPT !.swaps = before.swaps \o r.swaps]

\* ------------------------------------------------------------------- C1
\* C1 as stated: every apply_swap call that returns has debited
\* min(pre-call balance, requested amount) from `from`, and the post-call
\* balance of `from` is the pre-call balance minus that amount, for any from
\* and to.
C1_DebitAnyAssets ==
    ApplyReturned =>
        LET from == swap_args[2]
            debit == Min(Bal(pre, from), swap_args[4])
        IN  /\ debit <= Bal(pre, from)
            /\ Bal(world, from) = Bal(pre, from) - debit

\* C1 amended: the amount debited (and handed to the pricing function) is
\* min(pre-call balance, requested amount); the post-call balance of `from`
\* is the pre-call balance minus it when from # to, and that plus the
\* credited output when from = to.
C1_Debit ==
    ApplyReturned =>
        LET from == swap_args[2]
            to == swap_args[3]
            debit == Min(Bal(pre, from), swap_args[4])
        IN  /\ debit <= Bal(pre, from)
            /\ swaps # <<>> => swaps = <<<<swap_args[1], from, to, debit>>>>
            /\ Bal(world, from) =
                 IF from = to THEN Bal(pre, from) - debit + ret_out
                              ELSE Bal(pre, from) - debit

\* A capped swap between two different assets has completed.
C1_Witness ==
    /\ ApplyReturned
    /\ swap_args[2] # swap_args[3]
    /\ swaps # <<>>
    /\ 0 < Bal(pre, swap_args[2])
    /\ Bal(pre, swap_args[2]) < swap_args[4]

\* ------------------------------------------------------------------- C2
\* C2: when apply_swap panics (on a direction the pool supports, if the pool
\* is known), holdings and pool states are those before the
\* call; when execute_path panics, the World is the result of the hops that
\* completed before the failing hop.
C2_NoPartialApplication ==
    /\ (/\ ApplyPanicked
        /\ swap_args[1] \in DOMAIN pools => Supported(swap_args[1], swap_args[2], swap_args[3]))
       =>
         /\ SameBalances(world, pre)
         /\ world.pool_states = pre.pool_states
    /\ PathPanicked /\ panic \in {MissingPoolImpl, MissingPoolState} =>
         /\ SameBalances(world, RunHops(pre, path_spec, Len(steps)).world)
         /\ world.pool_states = RunHops(pre, path_spec, Len(steps)).world.pool_states

\* ------------------------------------------------------------------- C3
\* C3 as stated: apply_swap on a pool with an implementation (that supports
\* the direction) and no pool-state entry panics with the missing-state
\* error, whatever the balance of `from`.
C3_AlwaysMissingState ==
    (/\ ApplyCalled
     /\ Supported(swap_args[1], swap_args[2], swap_args[3])
     /\ swap_args[1] \notin DOMAIN pre.pool_states)
    => (pc = "panicked" /\ panic = MissingPoolState)

\* C3 amended: such a call panics with the missing-state error exactly when
\* the balance of `from` is non-zero, for every requested amount; when the
\* balance is zero or absent it returns zero without looking the state up.
C3_MissingState ==
    (/\ ApplyCalled
     /\ Admitted(swap_args[1], swap_args[2], swap_args[3])
     /\ swap_args[1] \notin DOMAIN pre.pool_states)
    => IF Bal(pre, swap_args[2]) = 0
       THEN pc = "returned" /\ ret_out = 0 /\ swaps = <<>>
       ELSE pc = "panicked" /\ panic = MissingPoolState /\ swaps = <<>>

\* The missing-state panic has happened on a zero-amount request.
C3_Witness ==
    /\ ApplyPanicked
    /\ panic = MissingPoolState
    /\ swap_args[1] \in DOMAIN pools
    /\ swap_args[1] \notin DOMAIN pre.pool_states
    /\ swap_args[4] = 0

\* ------------------------------------------------------------------- C4
\* C4: an apply_swap call (one the implementation lookup and the direction
\* assertion let through) on a zero or absent balance of `from` returns zero,
\* invokes no pricing function, leaves every pool state as it was and changes
\* no balance, an absent asset reading as zero.
C4_ZeroBalance ==
    (/\ ApplyCalled
     /\ Admitted(swap_args[1], swap_args[2], swap_args[3])
     /\ Bal(pre, swap_args[2]) = 0)
    => /\ pc = "returned"
       /\ ret_out = 0
       /\ swaps = <<>>
       /\ world.pool_states = pre.pool_states
       /\ SameBalances(world, pre)

\* A zero-balance call on a seeded pool, asked for a positive amount, returned.
C4_Witness ==
    /\ ApplyReturned
    /\ Bal(pre, swap_args[2]) = 0
    /\ swap_args[1] \in DOMAIN pre.pool_states
    /\ swap_args[4] > 0
    /\ swap_args[2] # swap_args[3]

\* ------------------------------------------------------------------- C5
\* C5 as stated: a hop (in a direction its pool supports) whose requested amount is zero or whose held balance
\* is zero returns zero and does not invoke the pricing function.
C5_ZeroInputNoPricing ==
    (/\ ApplyReturned
     /\ Supported(swap_args[1], swap_args[2], swap_args[3])
     /\ (swap_args[4] = 0 \/ Bal(pre, swap_args[2]) = 0))
    => (ret_out = 0 /\ swaps = <<>>)

\* C5 amended, for a single hop: with a zero balance the pricing function is
\* not invoked and the output is zero; with a non-zero balance and a zero
\* request it is invoked, with input zero, and its result is returned.
C5_SingleHop ==
    ApplyReturned =>
        LET pid == swap_args[1]
            from == swap_args[2]
            to == swap_args[3]
        IN  /\ Bal(pre, from) = 0 =>
                 (ret_out = 0 /\ swaps = <<>> /\ world.pool_states = pre.pool_states)
            /\ (Bal(pre, from) > 0 /\ swap_args[4] = 0) =>
                 /\ swaps = <<<<pid, from, to, 0>>>>
                 /\ ret_out = Swap(pools[pid], pre.pool_states[pid], from, to, 0).out
                 /\ world.pool_states[pid] # pre.pool_states[pid]

\* C5 amended, in execute_path: a hop applied while the balance of its input
\* asset is zero records output zero, invokes no pricing function and leaves
\* the pool states alone.
C5_PathHop ==
    (/\ pc = "loop"
     /\ pc' = "loop"
     /\ i' = i + 1
     /\ Bal(world, path_spec[i][2]) = 0)
    => /\ steps'[i].amt_out = 0
       /\ swaps' = swaps
       /\ world'.pool_states = world.pool_states

\* C5 amended: the short-circuit is on the held balance, not on the request.
C5_ZeroBalanceShortCircuit == []C5_SingleHop /\ [][C5_PathHop]_vars

\* A second hop of execute_path met a zero balance after the first hop priced.
C5_Witness ==
    /\ PathReturned
    /\ Len(ret_path) = 2
    /\ Len(swaps) = 1
    /\ swaps[1][1] = path_spec[1][1]
    /\ ret_path[2].amt_out = 0
    /\ ret_path[2].amt_in > 0


\* ------------------------------------------------------------------- C6
\* The 1-based position of the first hop whose input asset is not the output
\* asset of the hop before it; 0 if the route is continuous.
FirstDiscontinuity(ps) ==
    LET D == {k \in 2..Len(ps) : ps[k][2] # ps[k - 1][3]}
    IN  IF D = {} THEN 0 ELSE CHOOSE k \in D : \A j \in D : k <= j

\* C6: execute_path on a route whose first discontinuity is at hop k (the
\* hops before it completing) panics with the discontinuity error at hop k;
\* whenever it panics so, k is not the first hop and the World is exactly the
\* World that apply_swap on the hops before k, in order, leaves: neither hop k
\* nor a later hop has changed anything.
C6_Discontinuity ==
    (PathCalled /\ pc \in {"returned", "panicked"}) =>
        LET k == FirstDiscontinuity(path_spec)
            done == RunHops(pre, path_spec, k - 1)
        IN  /\ panic = PathDiscontinuity =>
                 /\ k >= 2
                 /\ i = k
                 /\ Len(steps) = k - 1
                 /\ done.panic = NoPanic
                 /\ world = done.world
                 /\ swaps = done.swaps
            /\ (k >= 2 /\ done.panic = NoPanic) =>
                 (pc = "panicked" /\ panic = PathDiscontinuity)

\* The second hop was found discontinuous after the first hop moved funds.
C6_Witness ==
    /\ PathPanicked
    /\ panic = PathDiscontinuity
    /\ i = 2
    /\ swaps # <<>>
    /\ ~SameBalances(world, pre)

\* ------------------------------------------------------------------- C7
\* C7: execute_path on an empty hop list panics with "path must have at least
\* one hop" and leaves the World as it was.
C7_EmptyRoute ==
    (PathCalled /\ path_spec = <<>>) =>
        /\ pc = "panicked"
        /\ panic = EmptyRoute
        /\ world = pre
        /\ steps = <<>>
        /\ swaps = <<>>

\* The empty route was rejected on a World with holdings and seeded pools.
C7_Witness ==
    /\ PathPanicked
    /\ path_spec = <<>>
    /\ panic = EmptyRoute
    /\ pre.holdings # <<>>
    /\ DOMAIN pre.pool_states = PoolId
    /\ DOMAIN pools = PoolId

\* ------------------------------------------------------------------- C8
\* C8, on return: one Step per hop, Step k recording the requested amount of
\* hop k and the amount apply_swap returned for it; the World and the pricing
\* calls are those of apply_swap on the hops in list order, each once.
C8_Returned ==
    PathReturned =>
        LET n == Len(path_spec)
            run == RunHops(pre, path_spec, n)
        IN  /\ Len(ret_path) = n
            /\ run.panic = NoPanic
            /\ world = run.world
            /\ swaps = run.swaps
            /\ \A k \in 1..n :
                 /\ ret_path[k].amt_in = path_spec[k][4]
                 /\ ret_path[k].amt_out =
                      ApplySwap(RunHops(pre, path_spec, k - 1).world, path_spec[k][1],
                                path_spec[k][2], path_spec[k][3], path_spec[k][4]).out

\* C8, hop by hop: a completed iteration appends one Step, for the hop at the
\* loop position, with the requested amount and an output that is exactly
\* what the iteration credited to the hop's output asset.
C8_Hop ==
    (pc = "loop" /\ pc' = "loop" /\ i' = i + 1) =>
        LET hop == path_spec[i]
            debit == Min(Bal(world, hop[2]), hop[4])
        IN  /\ Len(steps) = i - 1
            /\ Len(steps') = i
            /\ \A k \in 1..(i - 1) : steps'[k] = steps[k]
            /\ steps'[i].amt_in = hop[4]
            /\ Bal(world', hop[3]) =
                 Bal(world, hop[3]) + steps'[i].amt_out
                   - (IF hop[2] = hop[3] THEN debit ELSE 0)

\* C8: Steps record the requested input and the credited output, in order.
C8_StepAmounts == []C8_Returned /\ [][C8_Hop]_vars

\* A two-hop route returned whose second hop was capped below its request
\* and still produced output.
C8_Witness ==
    /\ PathReturned
    /\ Len(ret_path) = 2
    /\ Len(swaps) = 2
    /\ swaps[2][4] < ret_path[2].amt_in
    /\ ret_path[2].amt_out > 0
    /\ ret_path[1].to # ret_path[1].from

\* ------------------------------------------------------------------- C9
\* C9: a returned Path has one Step per hop, Step k carrying hop k's pool,
\* input asset and output asset; each Step's `from` is the `to` of the Step
\* before it, and the first Step's `from` is the route's starting asset.
C9_PathShape ==
    PathReturned =>
        /\ Len(ret_path) = Len(path_spec)
        /\ Len(ret_path) >= 1
        /\ \A k \in 1..Len(ret_path) :
             /\ ret_path[k].pool = path_spec[k][1]
             /\ ret_path[k].from = path_spec[k][2]
             /\ ret_path[k].to = path_spec[k][3]
        /\ \A k \in 1..(Len(ret_path) - 1) : ret_path[k + 1].from = ret_path[k].to
        /\ ret_path[1].from = path_spec[1][2]

\* A two-hop Path through two pools and three assets was returned.
C9_Witness ==
    /\ PathReturned
    /\ Len(ret_path) = 2
    /\ ret_path[1].pool # ret_path[2].pool
    /\ ret_path[2].to \notin {ret_path[1].from, ret_path[1].to}


\* ------------------------------------------------------------------ C10
\* C10: throughout and after a simulateChained call on a non-empty,
\* continuity-valid route the World's holdings and pool_states are, by value,
\* those before the call; the pricing calls it makes change the scratch
\* copies only.
C10_SimulationLeavesWorld ==
    (/\ op = "simulate_chained"
     /\ Len(sim_args[1]) > 0
     /\ FirstDiscontinuity(sim_args[1]) = 0)
    => /\ world.holdings = pre.holdings
       /\ world.pool_states = pre.pool_states
       /\ world = pre

\* A simulation returned after pricing twice against the same pool: its
\* scratch copy is two swaps ahead of where the call found the pool.
C10_Witness ==
    /\ op = "simulate_chained"
    /\ pc = "returned"
    /\ Len(swaps) = 2
    /\ swaps[1][1] = swaps[2][1]
    /\ scratch[swaps[1][1]] = pre.pool_states[swaps[1][1]] + 2
    /\ ret_path[2].amt_out > 0


\* ------------------------------------------------------------------ C11
\* C11: with X = 1,000,000 held alone, P1 (X/Y, 1% fee) and P2 (Y/Z, 2% fee)
\* seeded, execute_path on [(P1, X, Y, 250,000), (P2, Y, Z, 200,000)] returns
\* Steps with outputs 247,500 and 196,000 and leaves X = 750,000, Y = 47,500,
\* Z = 196,000.
C11_Scenario ==
    (PathCalled /\ pc \in {"returned", "panicked"}
       /\ pre = ScenarioWorld /\ path_spec = ScenarioPlan)
    => /\ pc = "returned"
       /\ Len(ret_path) = 2
       /\ ret_path[1] = Step(10, 1, 2, HopOneIn, HopOneOut)
       /\ ret_path[2] = Step(11, 2, 3, HopTwoIn, HopTwoOut)
       /\ world.holdings = (1 :> FinalX) @@ (2 :> FinalY) @@ (3 :> FinalZ)

\* The plan of the scenario has been executed to its end.
C11_Witness ==
    /\ PathReturned
    /\ pools = ScenarioPools
    /\ pre = ScenarioWorld
    /\ path_spec = ScenarioPlan
    /\ Len(swaps) = 2


\* ------------------------------------------------------ graph vocabulary
\* Number of edges of gr from node handle a to node handle b.
EdgeCount(gr, a, b) == Cardinality({k \in 1..Len(gr.edges) : gr.edges[k] = <<a, b>>})

Handles(gr) == 1..Len(gr.nodes)

HasEdge(gr, a, b) == EdgeCount(gr, a, b) >= 1

UniqueEdges(gr) == \A a \in Handles(gr), b \in Handles(gr) : EdgeCount(gr, a, b) <= 1

RawLink == {"connect_token_to_pool", "connect_pool_to_token"}

InsertingOps == RawLink \cup {"add_token", "add_pool", "connect_bidirectional_pair"}

\* The handles the last raw link call joined, source first.
LinkedPair ==
    IF g_op = "connect_token_to_pool"
    THEN <<graph.token_idx[g_args[1]], graph.pool_idx[g_args[2]]>>
    ELSE <<graph.pool_idx[g_args[1]], graph.token_idx[g_args[2]]>>

\* ------------------------------------------------------------------ C12
\* C12 as stated: in every reachable graph state there is at most one edge per
\* ordered (source, target) pair of nodes.
C12_UniqueEdges == UniqueEdges(graph)

\* C12 amended, per call: connect_token_to_pool and connect_pool_to_token add
\* one edge between the nodes they name whether or not one is there already;
\* every other insertion leaves an ordered pair that has an edge as it was and
\* gives a pair without one at most one.
C12_Insertion ==
    g_op \in InsertingOps =>
        \A a \in Handles(graph), b \in Handles(graph) :
            LET before == EdgeCount(g_prev, a, b)
                after == EdgeCount(graph, a, b)
            IN  IF g_op \in RawLink
                THEN after = before + (IF <<a, b>> = LinkedPair THEN 1 ELSE 0)
                ELSE IF before >= 1 THEN after = before ELSE after <= 1

\* C12 amended: a graph built without connect_token_to_pool and
\* connect_pool_to_token has at most one edge per ordered pair, and each call
\* acts on the edges as C12_Insertion says.
C12_UniqueWithoutRawLinks ==
    /\ raw_links = 0 => UniqueEdges(graph)
    /\ C12_Insertion

\* connect_bidirectional_pair has run on a graph that two raw links had
\* given a parallel edge, and has added edges of its own.
C12_Witness ==
    /\ g_op = "connect_bidirectional_pair"
    /\ ~UniqueEdges(g_prev)
    /\ Len(graph.edges) > Len(g_prev.edges)


\* ------------------------------------------------------------------ C13
BidirCalled == g_op = "connect_bidirectional_pair"

\* The four edges connect_bidirectional_pair(p, a, b) is to leave are in gr.
FourEdges(gr, p, a, b) ==
    /\ a \in DOMAIN gr.token_idx /\ b \in DOMAIN gr.token_idx /\ p \in DOMAIN gr.pool_idx
    /\ LET aix == gr.token_idx[a]
           bix == gr.token_idx[b]
           pix == gr.pool_idx[p]
       IN  /\ HasEdge(gr, aix, pix)
           /\ HasEdge(gr, pix, bix)
           /\ HasEdge(gr, bix, pix)
           /\ HasEdge(gr, pix, aix)

\* After connect_bidirectional_pair(p, a, b) the edges a->p, p->b, b->p and
\* p->a exist; from the empty graph with a # b they are the only edges.
C13_FourEdges ==
    BidirCalled =>
        /\ FourEdges(graph, g_args[1], g_args[2], g_args[3])
        /\ (g_prev = AMMGraphNew /\ g_args[2] # g_args[3]) => Len(graph.edges) = 4

\* A call that repeats the connect_bidirectional_pair call before it.
SecondCall ==
    /\ BidirCalled
    /\ g_op' = "connect_bidirectional_pair"
    /\ g_args' = g_args

\* C13: connect_bidirectional_pair(p, a, b) leaves the four edges a->p, p->b,
\* b->p, p->a (4 edges in all from the empty graph when a # b), and a second
\* call with the same arguments changes neither the node count nor the edge
\* count.
C13_Bidirectional ==
    /\ []C13_FourEdges
    /\ [][SecondCall => /\ Len(graph'.nodes) = Len(graph.nodes)
                        /\ Len(graph'.edges) = Len(graph.edges)]_vars

\* The second of two identical calls on an empty graph has returned.
C13_Witness ==
    /\ BidirCalled
    /\ n_ops = 2
    /\ g_args[2] # g_args[3]
    /\ FourEdges(g_prev, g_args[1], g_args[2], g_args[3])
    /\ Len(g_prev.edges) = 4
    /\ graph = g_prev

\* ------------------------------------------------------------------ C14
\* What add_token / add_pool with id is to do, given the index idx of its
\* kind before the call, the node w it stands for, and what it returned.
AddedOnce(idx, id, w) ==
    IF id \in DOMAIN idx
    THEN /\ g_ret = <<idx[id]>>
         /\ graph = g_prev
    ELSE /\ graph.nodes = Append(g_prev.nodes, w)
         /\ graph.edges = g_prev.edges
         /\ g_ret = <<Len(graph.nodes)>>

C14_Add ==
    /\ g_op = "add_token" => AddedOnce(g_prev.token_idx, g_args[1], TokenNode(g_args[1]))
    /\ g_op = "add_pool" => AddedOnce(g_prev.pool_idx, g_args[1], PoolNode(g_args[1]))

\* A call that repeats the add_token or add_pool call before it.
RepeatedAdd ==
    /\ g_op \in {"add_token", "add_pool"}
    /\ g_op' = g_op
    /\ g_args' = g_args

\* C14: add_token (add_pool) with an identifier already present returns the
\* handle the identifier already has, the one the call before returned, and
\* leaves nodes and edges as they were; with a new identifier it adds exactly
\* one node, of the matching kind, and no edge.
C14_AddIdempotent ==
    /\ []C14_Add
    /\ [][RepeatedAdd => g_ret' = g_ret /\ graph' = graph]_vars

\* add_token has been called with an identifier the graph held, in a graph
\* that has edges.
C14_Witness ==
    /\ g_op = "add_token"
    /\ g_args[1] \in DOMAIN g_prev.token_idx
    /\ Len(g_prev.edges) > 0

\* ------------------------------------------------------------------ C15
Range(seq) == {seq[k] : k \in 1..Len(seq)}

\* The handles a query returned are those of the pools of ps.
ReturnedPools(ps) ==
    Range(g_ret) = {graph.pool_idx[p] : p \in ps \cap DOMAIN graph.pool_idx}

ReturnedTokens(ts) ==
    Range(g_ret) = {graph.token_idx[t] : t \in ts \cap DOMAIN graph.token_idx}

\* C15: pools_accepting(t) yields pool p if and only if a link t -> p was
\* asked for (by connect_token_to_pool or connect_bidirectional_pair), and
\* tokens_emitted_by(p) yields token t if and only if a link p -> t was asked
\* for; a link in one direction puts nothing in the query of the other.
C15_Queries ==
    /\ (g_op = "pools_accepting" /\ g_panic = NoPanic) =>
           /\ ReturnedPools({p \in PoolId : Feeds(g_args[1], p) \in inserted})
           /\ \A p \in PoolId : Feeds(g_args[1], p) \in inserted => p \in DOMAIN graph.pool_idx
    /\ (g_op = "pools_accepting" /\ g_panic # NoPanic) =>
           \A p \in PoolId : Feeds(g_args[1], p) \notin inserted
    /\ (g_op = "tokens_emitted_by" /\ g_panic = NoPanic) =>
           /\ ReturnedTokens({t \in TokenId : Emits(g_args[1], t) \in inserted})
           /\ \A t \in TokenId : Emits(g_args[1], t) \in inserted => t \in DOMAIN graph.token_idx
    /\ (g_op = "tokens_emitted_by" /\ g_panic # NoPanic) =>
           \A t \in TokenId : Emits(g_args[1], t) \notin inserted

\* pools_accepting(t) has yielded a pool while another pool emits t and does
\* not accept it.
C15_Witness ==
    /\ g_op = "pools_accepting"
    /\ g_panic = NoPanic
    /\ g_ret # <<>>
    /\ \E p \in PoolId : Emits(p, g_args[1]) \in inserted /\ Feeds(g_args[1], p) \notin inserted

\* ------------------------------------------------------------------ C18
InsertedTokens == {w.id : w \in {x \in inserted_ids : x.kind = "Token"}}
InsertedPools == {w.id : w \in {x \in inserted_ids : x.kind = "Pool"}}

C18_Correspondence ==
    /\ DOMAIN graph.token_idx = InsertedTokens
    /\ DOMAIN graph.pool_idx = InsertedPools
    /\ \A t \in DOMAIN graph.token_idx :
           /\ graph.token_idx[t] \in Handles(graph)
           /\ graph.nodes[graph.token_idx[t]] = TokenNode(t)
    /\ \A p \in DOMAIN graph.pool_idx :
           /\ graph.pool_idx[p] \in Handles(graph)
           /\ graph.nodes[graph.pool_idx[p]] = PoolNode(p)
    /\ \A t1 \in DOMAIN graph.token_idx, t2 \in DOMAIN graph.token_idx :
           t1 # t2 => graph.token_idx[t1] # graph.token_idx[t2]
    /\ \A p1 \in DOMAIN graph.pool_idx, p2 \in DOMAIN graph.pool_idx :
           p1 # p2 => graph.pool_idx[p1] # graph.pool_idx[p2]
    /\ \A t \in DOMAIN graph.token_idx, p \in DOMAIN graph.pool_idx :
           graph.token_idx[t] # graph.pool_idx[p]
    /\ Len(graph.nodes) =
           Cardinality(DOMAIN graph.token_idx) + Cardinality(DOMAIN graph.pool_idx)
    /\ \A k \in 1..Len(graph.edges) :
           /\ graph.edges[k][1] \in Handles(graph)
           /\ graph.edges[k][2] \in Handles(graph)
           /\ graph.nodes[graph.edges[k][1]].kind # graph.nodes[graph.edges[k][2]].kind

\* Every handle of gr is the handle the same identifier has in gr2.
HandlesKept(gr, gr2) ==
    /\ \A t \in DOMAIN gr.token_idx :
           t \in DOMAIN gr2.token_idx /\ gr2.token_idx[t] = gr.token_idx[t]
    /\ \A p \in DOMAIN gr.pool_idx :
           p \in DOMAIN gr2.pool_idx /\ gr2.pool_idx[p] = gr.pool_idx[p]

\* C18: every inserted identifier maps to exactly one node, of its kind and
\* holding it; distinct identifiers map to distinct nodes; a handle never
\* changes once assigned; the node count is the number of known tokens plus
\* known pools; every edge joins a token node and a pool node.
C18_NodeIdentity ==
    /\ []C18_Correspondence
    /\ [][HandlesKept(graph, graph')]_vars

\* Two tokens and two pools are in the graph and an add call has just named
\* one of them again.
C18_Witness ==
    /\ g_op \in {"add_token", "add_pool"}
    /\ graph = g_prev
    /\ Len(graph.nodes) = 4

\* ------------------------------------------------------------------ C19
\* C19: pools_accepting for a token never inserted, and tokens_emitted_by for
\* a pool never inserted, panic rather than yield nothing; for an inserted
\* identifier they do not panic; the graph is as it was in either case.
C19_UnknownIdPanics ==
    /\ g_op = "pools_accepting" =>
           /\ g_panic = IF TokenNode(g_args[1]) \in inserted_ids THEN NoPanic ELSE NoEntryFound
           /\ graph = g_prev
    /\ g_op = "tokens_emitted_by" =>
           /\ g_panic = IF PoolNode(g_args[1]) \in inserted_ids THEN NoPanic ELSE NoEntryFound
           /\ graph = g_prev

\* pools_accepting has panicked on a graph that holds another token.
C19_Witness ==
    /\ g_op = "pools_accepting"
    /\ g_panic = NoEntryFound
    /\ DOMAIN graph.token_idx # {}


\* ------------------------------------------------------------------ C16
\* Between w1 and w2 nothing differs but the balances of from and to and the
\* state of pid: every other asset and every other pool has the same entry or
\* the same lack of one, and the same pools have a state.
FrameKept(w1, w2, pid, from, to) ==
    /\ \A t \in TokenId \ {from, to} :
           /\ t \in DOMAIN w1.holdings <=> t \in DOMAIN w2.holdings
           /\ Bal(w1, t) = Bal(w2, t)
    /\ \A q \in PoolId \ {pid} :
           /\ q \in DOMAIN w1.pool_states <=> q \in DOMAIN w2.pool_states
           /\ q \in DOMAIN w1.pool_states => w2.pool_states[q] = w1.pool_states[q]
    /\ DOMAIN w2.pool_states = DOMAIN w1.pool_states

C16_Apply ==
    ApplyCalled => FrameKept(pre, world, swap_args[1], swap_args[2], swap_args[3])

\* An iteration of execute_path's loop is an apply_swap call on its hop.
C16_Hop ==
    (PathCalled /\ pc = "loop" /\ i <= Len(path_spec)) =>
        FrameKept(world, world', path_spec[i][1], path_spec[i][2], path_spec[i][3])

\* C16: apply_swap(pid, from, to, amt) changes at most the balances of from
\* and to and the state of pid, whether it returns or panics, and neither
\* apply_swap nor any step of execute_path changes which pools have a state
\* entry.
C16_Frame ==
    /\ []C16_Apply
    /\ [][C16_Hop /\ DOMAIN world'.pool_states = DOMAIN world.pool_states]_vars

\* A two-hop path through two seeded pools has been executed, each hop
\* leaving a third asset and the other pool alone.
C16_Witness ==
    /\ PathReturned
    /\ Len(swaps) = 2
    /\ swaps[1][1] # swaps[2][1]
    /\ \A k \in 1..2 : Supported(path_spec[k][1], path_spec[k][2], path_spec[k][3])
    /\ Cardinality(DOMAIN world.holdings) = 3
    /\ DOMAIN pre.pool_states = PoolId

\* ------------------------------------------------------------------ C17
\* C17 as stated: apply_swap gives an asset a holdings entry only by crediting
\* it as the output of a swap, so a call that credits nothing (here: on a pool
\* that supports the direction) leaves the set of assets with an entry as it
\* was, a call that credits adds at most the output asset, and no call
\* creates a pool-state entry.
C17_EntriesOnlyOnCredit ==
    /\ (/\ ApplyCalled
        /\ Supported(swap_args[1], swap_args[2], swap_args[3])
        /\ swaps = <<>>)
       => DOMAIN world.holdings = DOMAIN pre.holdings
    /\ (ApplyCalled /\ swaps # <<>>)
       => DOMAIN world.holdings = DOMAIN pre.holdings \cup {swap_args[3]}
    /\ ApplyCalled => DOMAIN world.pool_states = DOMAIN pre.pool_states

====
